---- MODULE Spec2Model ----
(***************************************************************************)
(* A model of the QOI codec of src/qoi.c: qoi_encode, qoi_decode and the   *)
(* file wrappers qoi_read and qoi_write, as built by the Makefile          *)
(* (-DNDEBUG: assert() compiles to nothing, the if-guards decide).         *)
(*                                                                         *)
(* Integers of the model are below 2^31; every input the model draws keeps *)
(* the code's 32-bit products below that, so no product wraps.             *)
(***************************************************************************)
EXTENDS Integers, Sequences, FiniteSets, TLC

VARIABLES
  pc,       \* position of the program
  errno,    \* C errno
  heap,     \* names of the live malloc() blocks
  desc,     \* qoi_encode: *desc
  data,     \* qoi_encode: the pixel bytes at data
  enc,      \* qoi_encode: its locals (bytes, idx, mem, px_curr, px_prev, run, ...)
  encRet,   \* qoi_encode: returned pointer and *size
  encHist,  \* history: mem of qoi_encode after each pixel
  in,       \* qoi_decode: data, size and channels arguments
  ddesc,    \* qoi_decode: *desc, the caller's descriptor
  ddesc0,   \* history: *desc when qoi_decode was called
  dec,      \* qoi_decode: its locals (idx, mem, px_curr, run, px, ...)
  decRet,   \* qoi_decode: returned pointer
  decHist,  \* history: mem of qoi_decode after each pixel
  file      \* qoi_read / qoi_write: the FILE handle, libc results and locals

vars == <<pc, errno, heap, desc, data, enc, encRet, encHist,
          in, ddesc, ddesc0, dec, decRet, decHist, file>>

encVars == <<desc, data, enc, encRet, encHist>>
decVars == <<in, ddesc, ddesc0, dec, decRet, decHist>>

----------------------------------------------------------------------------
(* Program constants.                                                      *)

QOI_HEADER_SIZE == 14
QOI_MAGIC == 1903126886
QOI_MAXIMUM_PIXELS == 400000000
QOI_MAXIMUM_RUN == 62
QOI_OP_INDEX == 0
QOI_OP_DIFF == 64
QOI_OP_LUMA == 128
QOI_OP_RUN == 192
QOI_OP_RGB == 254
QOI_OP_RGBA == 255
QOI_OP_MASK == 192
QOI_RUN_MASK == 63
MEMORY_SIZE == 64
qoi_padding == <<0, 0, 0, 0, 0, 0, 0, 1>>
PaddingSize == Len(qoi_padding)

----------------------------------------------------------------------------
(* Bounds of the model.                                                    *)

MaxPixels == 3
MaxChunkBytes == 3

----------------------------------------------------------------------------
(* C arithmetic on bytes.                                                  *)

U8(x) == x % 256
\* the difference kept as the int it was computed in
S8NoWrap(x) == x

S8(x) == IF x % 256 >= 128 THEN (x % 256) - 256 ELSE x % 256

RECURSIVE BitAnd(_, _)
BitAnd(a, b) ==
  IF a = 0 \/ b = 0 THEN 0
  ELSE (a % 2) * (b % 2) + 2 * BitAnd(a \div 2, b \div 2)

RECURSIVE BitOr(_, _)
BitOr(a, b) ==
  IF a = 0 THEN b
  ELSE IF b = 0 THEN a
  ELSE (IF a % 2 = 1 \/ b % 2 = 1 THEN 1 ELSE 0) + 2 * BitOr(a \div 2, b \div 2)

Shl(a, n) == a * (2 ^ n)
Shr(a, n) == a \div (2 ^ n)

----------------------------------------------------------------------------
(* Pixels, the table and the shared helpers.                               *)

Pixel(r, g, b, a) == [r |-> r, g |-> g, b |-> b, a |-> a]
PixelStart == Pixel(0, 0, 0, 255)
MemZero == [i \in 0..(MEMORY_SIZE - 1) |-> Pixel(0, 0, 0, 0)]

qoi_hash(color) ==
  U8((color.r * 3 + color.g * 5 + color.b * 7 + color.a * 11) % MEMORY_SIZE)

\* a little-endian write
qoi_write_32_little_endian(val) ==
  << val % 256, (val \div 256) % 256, (val \div 65536) % 256,
     (val \div 16777216) % 256 >>

qoi_write_32(val) ==
  << (val \div 16777216) % 256, (val \div 65536) % 256,
     (val \div 256) % 256, val % 256 >>

qoi_read_32(bytes, idx) ==
  BitOr(BitOr(BitOr(Shl(bytes[idx + 1], 24), Shl(bytes[idx + 2], 16)),
              Shl(bytes[idx + 3], 8)), bytes[idx + 4])

----------------------------------------------------------------------------
(* qoi_encode.                                                             *)

\* the guard without its colorspace test
EncodeArgsInvalidNoColorspace(d) ==
  \/ d.width = 0
  \/ d.height = 0
  \/ (d.channels # 3 /\ d.channels # 4)
  \/ d.height >= QOI_MAXIMUM_PIXELS \div d.width

\* The guard of qoi_encode (data, desc and size are non-NULL in every call
\* the model makes).  C's || evaluates left to right, as TLC's \/ does, so
\* the division is reached only with width > 0.
EncodeArgsInvalid(d) ==
  \/ d.width = 0
  \/ d.height = 0
  \/ (d.channels # 3 /\ d.channels # 4)
  \/ d.colorspace > 1
  \/ d.height >= QOI_MAXIMUM_PIXELS \div d.width

\* the size that leaves out the opcode byte of each pixel
EncodeBufferSizeNoOpcode(d) ==
  d.width * d.height * d.channels + QOI_HEADER_SIZE + PaddingSize

\* sz, the size of the output buffer
EncodeBufferSize(d) ==
  d.width * d.height * (d.channels + 1) + QOI_HEADER_SIZE + PaddingSize

\* bytes[idx++] = b, for each b of bs in turn
Put(s, bs) == [s EXCEPT !.bytes = @ \o bs, !.idx = @ + Len(bs)]

EncodeHeader(d) ==
  qoi_write_32(QOI_MAGIC) \o qoi_write_32(d.width) \o qoi_write_32(d.height)
    \o <<d.channels, d.colorspace>>

\* the locals of qoi_encode when its loop is entered
EncodeStart(d) ==
  [bytes    |-> EncodeHeader(d),
   idx      |-> QOI_HEADER_SIZE,
   sz       |-> EncodeBufferSize(d),
   mem      |-> MemZero,
   px_curr  |-> PixelStart,
   px_prev  |-> PixelStart,
   px_len   |-> d.width * d.height * d.channels,
   px_end   |-> d.width * d.height * d.channels - d.channels,
   px_pos   |-> 0,
   run      |-> 0,
   channels |-> d.channels,
   op       |-> "none"]

\* the locals before qoi_encode has initialised any of them
EncodeIdle ==
  [bytes |-> <<>>, idx |-> 0, sz |-> 0, mem |-> MemZero, px_curr |-> PixelStart,
   px_prev |-> PixelStart, px_len |-> 0, px_end |-> 0, px_pos |-> 0, run |-> 0,
   channels |-> 0, op |-> "none"]

\* load in new pixel
LoadPixel(s, px) ==
  IF s.channels = 4
    THEN Pixel(px[s.px_pos + 1], px[s.px_pos + 2], px[s.px_pos + 3], px[s.px_pos + 4])
    ELSE Pixel(px[s.px_pos + 1], px[s.px_pos + 2], px[s.px_pos + 3], s.px_curr.a)

\* the RUN byte that stores the run length itself
OpRunNoBias(run) == U8(BitOr(QOI_OP_RUN, run))

\* QOI_OP_RUN | (run - 1)
OpRun(run) == U8(BitOr(QOI_OP_RUN, run - 1))

\* QOI_OP_INDEX | mem_pos
OpIndex(mem_pos) == U8(BitOr(QOI_OP_INDEX, mem_pos))

\* the DIFF byte with dg one bit too far left
OpDiffShifted(dr, dg, db) ==
  U8(BitOr(BitOr(BitOr(QOI_OP_DIFF, Shl(dr + 2, 4)), Shl(dg + 2, 3)), db + 2))

\* QOI_OP_DIFF | (dr + 2) << 4 | (dg + 2) << 2 | (db + 2)
OpDiff(dr, dg, db) ==
  U8(BitOr(BitOr(BitOr(QOI_OP_DIFF, Shl(dr + 2, 4)), Shl(dg + 2, 2)), db + 2))

\* QOI_OP_LUMA | (dg + 32), then (dr_dg + 8) << 4 | (db_dg + 8)
OpLuma(dg, dr_dg, db_dg) ==
  << U8(BitOr(QOI_OP_LUMA, dg + 32)), U8(BitOr(Shl(dr_dg + 8, 4), db_dg + 8)) >>

\* the chunk of a new pixel with LUMA tried before DIFF
EncodeNewPixelLumaFirst(c, p) ==
  IF c.a = p.a
    THEN LET dr    == S8(c.r - p.r)
             dg    == S8(c.g - p.g)
             db    == S8(c.b - p.b)
             dr_dg == S8(dr - dg)
             db_dg == S8(db - dg)
         IN  IF (dg >= -32 /\ dg <= 31) /\ (dr_dg >= -8 /\ dr_dg <= 7)
                /\ (db_dg >= -8 /\ db_dg <= 7)
               THEN [op |-> "LUMA", bytes |-> OpLuma(dg, dr_dg, db_dg)]
               ELSE IF (dr >= -2 /\ dr <= 1) /\ (dg >= -2 /\ dg <= 1)
                       /\ (db >= -2 /\ db <= 1)
                      THEN [op |-> "DIFF", bytes |-> <<OpDiff(dr, dg, db)>>]
                      ELSE [op |-> "RGB", bytes |-> <<QOI_OP_RGB, c.r, c.g, c.b>>]
    ELSE [op |-> "RGBA", bytes |-> <<QOI_OP_RGBA, c.r, c.g, c.b, c.a>>]

\* The chunk of a pixel that is neither a run nor an index hit, and its kind.
EncodeNewPixel(c, p) ==
  IF c.a = p.a
    THEN LET dr == S8(c.r - p.r)
             dg == S8(c.g - p.g)
             db == S8(c.b - p.b)
         IN  IF (dr >= -2 /\ dr <= 1) /\ (dg >= -2 /\ dg <= 1) /\ (db >= -2 /\ db <= 1)
               THEN [op |-> "DIFF", bytes |-> <<OpDiff(dr, dg, db)>>]
               ELSE LET dr_dg == S8(dr - dg)
                        db_dg == S8(db - dg)
                    IN  IF (dg >= -32 /\ dg <= 31) /\ (dr_dg >= -8 /\ dr_dg <= 7)
                           /\ (db_dg >= -8 /\ db_dg <= 7)
                          THEN [op |-> "LUMA", bytes |-> OpLuma(dg, dr_dg, db_dg)]
                          ELSE [op |-> "RGB", bytes |-> <<QOI_OP_RGB, c.r, c.g, c.b>>]
    ELSE [op |-> "RGBA", bytes |-> <<QOI_OP_RGBA, c.r, c.g, c.b, c.a>>]

\* the flush that forgets the run without writing it
FlushRunDropped(s) == IF s.run > 0 THEN [s EXCEPT !.run = 0] ELSE s

\* complete any existing run
FlushRun(s) ==
  IF s.run > 0 THEN Put([s EXCEPT !.run = 0], <<OpRun(s.run)>>) ELSE s

\* the loop body without the test for a run
EncodePixelNoRun(s, px) ==
  LET c       == LoadPixel(s, px)
      s1      == [s EXCEPT !.px_curr = c]
      mem_pos == qoi_hash(c)
      s2      == IF c = s1.mem[mem_pos]
                   THEN Put([s1 EXCEPT !.op = "INDEX"], <<OpIndex(mem_pos)>>)
                   ELSE LET n == EncodeNewPixel(c, s.px_prev)
                        IN  Put([s1 EXCEPT !.mem[mem_pos] = c, !.op = n.op], n.bytes)
  IN  [s2 EXCEPT !.px_prev = c, !.px_pos = @ + s.channels]

\* the loop body that stores the pixel in the table on every branch
EncodePixelTableAlways(s, px) ==
  LET c  == LoadPixel(s, px)
      s1 == [s EXCEPT !.px_curr = c, !.mem[qoi_hash(c)] = c]
      s2 == IF c = s.px_prev
              THEN LET run == U8(s.run + 1)
                   IN  IF run = QOI_MAXIMUM_RUN \/ s.px_pos = s.px_end
                         THEN Put([s1 EXCEPT !.run = 0, !.op = "RUN"], <<OpRun(run)>>)
                         ELSE [s1 EXCEPT !.run = run, !.op = "RUN"]
              ELSE LET f       == FlushRun(s1)
                       mem_pos == qoi_hash(c)
                   IN  IF c = s.mem[mem_pos]
                         THEN Put([f EXCEPT !.op = "INDEX"], <<OpIndex(mem_pos)>>)
                         ELSE LET n == EncodeNewPixel(c, s.px_prev)
                              IN  Put([f EXCEPT !.op = n.op], n.bytes)
  IN  [s2 EXCEPT !.px_prev = c, !.px_pos = @ + s.channels]

\* the loop body that ends a run one pixel late
EncodePixelLateFlush(s, px) ==
  LET c  == LoadPixel(s, px)
      s1 == [s EXCEPT !.px_curr = c]
      s2 == IF c = s.px_prev
              THEN LET run == U8(s.run + 1)
                   IN  IF run = QOI_MAXIMUM_RUN + 1 \/ s.px_pos = s.px_end
                         THEN Put([s1 EXCEPT !.run = 0, !.op = "RUN"], <<OpRun(run)>>)
                         ELSE [s1 EXCEPT !.run = run, !.op = "RUN"]
              ELSE LET f       == FlushRun(s1)
                       mem_pos == qoi_hash(c)
                   IN  IF c = f.mem[mem_pos]
                         THEN Put([f EXCEPT !.op = "INDEX"], <<OpIndex(mem_pos)>>)
                         ELSE LET n == EncodeNewPixel(c, s.px_prev)
                              IN  Put([f EXCEPT !.mem[mem_pos] = c, !.op = n.op], n.bytes)
  IN  [s2 EXCEPT !.px_prev = c, !.px_pos = @ + s.channels]

\* One iteration of the loop of qoi_encode.  op records the branch taken.
EncodePixel(s, px) ==
  LET c  == LoadPixel(s, px)
      s1 == [s EXCEPT !.px_curr = c]
      s2 == IF c = s.px_prev
              THEN LET run == U8(s.run + 1)
                   IN  IF run = QOI_MAXIMUM_RUN \/ s.px_pos = s.px_end
                         THEN Put([s1 EXCEPT !.run = 0, !.op = "RUN"], <<OpRun(run)>>)
                         ELSE [s1 EXCEPT !.run = run, !.op = "RUN"]
              ELSE LET f       == FlushRun(s1)
                       mem_pos == qoi_hash(c)
                   IN  IF c = f.mem[mem_pos]
                         THEN Put([f EXCEPT !.op = "INDEX"], <<OpIndex(mem_pos)>>)
                         ELSE LET n == EncodeNewPixel(c, s.px_prev)
                              IN  Put([f EXCEPT !.mem[mem_pos] = c, !.op = n.op], n.bytes)
  IN  [s2 EXCEPT !.px_prev = c, !.px_pos = @ + s.channels]

\* append padding
EncodePadding(s) == Put(s, qoi_padding)

RetNone == [ret |-> "none", size |-> 0]

\* qoi_encode from its entry to the first iteration of its loop
EncodeEnter ==
  /\ pc = "enc_call"
  /\ IF EncodeArgsInvalid(desc)
       THEN /\ errno' = "EINVAL"
            /\ encRet' = [ret |-> "NULL", size |-> 0]
            /\ pc' = "enc_failed"
            /\ UNCHANGED <<heap, enc>>
       ELSE \E ok \in BOOLEAN :
              IF ok
                THEN /\ heap' = heap \cup {"bytes"}
                     /\ enc' = EncodeStart(desc)
                     /\ pc' = "enc_loop"
                     /\ UNCHANGED <<errno, encRet>>
                ELSE /\ errno' = "ENOMEM"
                     /\ encRet' = [ret |-> "NULL", size |-> 0]
                     /\ pc' = "enc_failed"
                     /\ UNCHANGED <<heap, enc>>
  /\ UNCHANGED <<desc, data, encHist, file>>
  /\ UNCHANGED decVars

\* one pixel of the loop of qoi_encode
EncodeLoop ==
  /\ pc = "enc_loop"
  /\ enc.px_pos < enc.px_len
  /\ enc' = EncodePixel(enc, data)
  /\ encHist' = Append(encHist, enc'.mem)
  /\ UNCHANGED <<pc, errno, heap, desc, data, encRet, file>>
  /\ UNCHANGED decVars

\* the end of qoi_encode: the padding, *size and the return
EncodeReturn ==
  /\ pc = "enc_loop"
  /\ ~(enc.px_pos < enc.px_len)
  /\ enc' = EncodePadding(enc)
  /\ encRet' = [ret |-> "bytes", size |-> enc'.idx]
  /\ pc' = "enc_done"
  /\ UNCHANGED <<errno, heap, desc, data, encHist, file>>
  /\ UNCHANGED decVars

----------------------------------------------------------------------------
(* qoi_decode.                                                             *)

\* The first guard of qoi_decode (data and desc are non-NULL in every call
\* the model makes).
DecodeArgsInvalid(size, channels) ==
  \/ (channels # 0 /\ channels # 3 /\ channels # 4)
  \/ size < QOI_HEADER_SIZE + PaddingSize

\* read QOI header: the descriptor as qoi_decode stores it into *desc
DecodeHeader(bytes) ==
  [width      |-> qoi_read_32(bytes, 4),
   height     |-> qoi_read_32(bytes, 8),
   channels   |-> bytes[13],
   colorspace |-> bytes[14]]

\* the header guard without its magic test
DecodeHeaderInvalidNoMagic(d, magic) ==
  \/ d.width = 0
  \/ d.height = 0
  \/ d.channels < 3
  \/ d.channels > 4
  \/ d.colorspace > 1
  \/ d.height >= QOI_MAXIMUM_PIXELS \div d.width

\* The second guard of qoi_decode, on the header it has read.
DecodeHeaderInvalid(d, magic) ==
  \/ d.width = 0
  \/ d.height = 0
  \/ d.channels < 3
  \/ d.channels > 4
  \/ d.colorspace > 1
  \/ magic # QOI_MAGIC
  \/ d.height >= QOI_MAXIMUM_PIXELS \div d.width

\* the target channel count that ignores the header's when none is asked for
DecodeChannelsDefault4(channels, d) == IF channels = 0 THEN 4 ELSE channels

\* channels after "if (channels == 0) channels = desc->channels"
DecodeChannels(channels, d) == IF channels = 0 THEN d.channels ELSE channels

\* the locals of qoi_decode when its loop is entered
DecodeStart(d, size, channels) ==
  [idx       |-> QOI_HEADER_SIZE,
   mem       |-> MemZero,
   px        |-> <<>>,
   px_chunks |-> size - PaddingSize,
   px_curr   |-> PixelStart,
   px_len    |-> d.width * d.height * channels,
   px_pos    |-> 0,
   run       |-> 0,
   channels  |-> channels,
   op        |-> "none"]

\* the locals before qoi_decode has initialised any of them
DecodeIdle ==
  [idx |-> 0, mem |-> MemZero, px |-> <<>>, px_chunks |-> 0, px_curr |-> PixelStart,
   px_len |-> 0, px_pos |-> 0, run |-> 0, channels |-> 0, op |-> "none"]

\* decode unknown byte sequence: the chunk at idx, and the table update
\* that follows the if-chain whichever branch it took
DecodeChunk(s, bytes) ==
  LET byte1 == bytes[s.idx + 1]
      c     == s.px_curr
      s1    ==
        IF byte1 = QOI_OP_RGBA
          THEN [s EXCEPT !.idx = @ + 5, !.op = "RGBA",
                         !.px_curr = Pixel(bytes[s.idx + 2], bytes[s.idx + 3],
                                           bytes[s.idx + 4], bytes[s.idx + 5])]
        ELSE IF byte1 = QOI_OP_RGB
          THEN [s EXCEPT !.idx = @ + 4, !.op = "RGB",
                         !.px_curr = Pixel(bytes[s.idx + 2], bytes[s.idx + 3],
                                           bytes[s.idx + 4], c.a)]
        ELSE IF BitAnd(byte1, QOI_OP_MASK) = QOI_OP_LUMA
          THEN LET byte2 == bytes[s.idx + 2]
                   dg    == S8(BitAnd(byte1, 63) - 32)
               IN  [s EXCEPT !.idx = @ + 2, !.op = "LUMA",
                             !.px_curr =
                                Pixel(U8(c.r + dg + BitAnd(Shr(byte2, 4), 15) - 8),
                                      U8(c.g + dg),
                                      U8(c.b + dg + BitAnd(byte2, 15) - 8),
                                      c.a)]
        ELSE IF BitAnd(byte1, QOI_OP_MASK) = QOI_OP_DIFF
          THEN [s EXCEPT !.idx = @ + 1, !.op = "DIFF",
                         !.px_curr = Pixel(U8(c.r + BitAnd(Shr(byte1, 4), 3) - 2),
                                           U8(c.g + BitAnd(Shr(byte1, 2), 3) - 2),
                                           U8(c.b + BitAnd(byte1, 3) - 2),
                                           c.a)]
        ELSE IF BitAnd(byte1, QOI_OP_MASK) = QOI_OP_INDEX
          THEN [s EXCEPT !.idx = @ + 1, !.op = "INDEX", !.px_curr = s.mem[byte1]]
        ELSE IF BitAnd(byte1, QOI_OP_MASK) = QOI_OP_RUN
          THEN [s EXCEPT !.idx = @ + 1, !.op = "RUN",
                         !.run = BitAnd(byte1, QOI_RUN_MASK)]
        ELSE [s EXCEPT !.idx = @ + 1, !.op = "none"]
  IN  [s1 EXCEPT !.mem[qoi_hash(s1.px_curr)] = s1.px_curr]

\* write out decoded pixel
WritePixel(s) ==
  LET c == s.px_curr
  IN  [s EXCEPT !.px = @ \o (IF s.channels = 4 THEN <<c.r, c.g, c.b, c.a>>
                                               ELSE <<c.r, c.g, c.b>>),
                !.px_pos = @ + s.channels]

\* the loop body that starts over from the start pixel once the chunks end
DecodePixelReset(s, bytes) ==
  WritePixel(IF s.run > 0 THEN [s EXCEPT !.run = @ - 1, !.op = "replay"]
             ELSE IF s.idx < s.px_chunks THEN DecodeChunk(s, bytes)
             ELSE [s EXCEPT !.op = "exhausted", !.px_curr = PixelStart])

\* the loop body that goes on reading chunks after the chunks have ended
DecodePixelNoEnd(s, bytes) ==
  WritePixel(IF s.run > 0 THEN [s EXCEPT !.run = @ - 1, !.op = "replay"]
             ELSE DecodeChunk(s, bytes))

\* One iteration of the loop of qoi_decode.  op records the branch taken.
DecodePixel(s, bytes) ==
  WritePixel(IF s.run > 0 THEN [s EXCEPT !.run = @ - 1, !.op = "replay"]
             ELSE IF s.idx < s.px_chunks THEN DecodeChunk(s, bytes)
             ELSE [s EXCEPT !.op = "exhausted"])

\* qoi_decode from its entry to the first iteration of its loop
DecodeEnter ==
  /\ pc = "dec_call"
  /\ IF DecodeArgsInvalid(in.size, in.channels)
       THEN /\ errno' = "EINVAL"
            /\ decRet' = "NULL"
            /\ pc' = "dec_failed"
            /\ UNCHANGED <<heap, ddesc, dec>>
       ELSE LET magic == qoi_read_32(in.bytes, 0)
                d     == DecodeHeader(in.bytes)
            IN  /\ ddesc' = d
                /\ IF DecodeHeaderInvalid(d, magic)
                     THEN /\ errno' = "EINVAL"
                          /\ decRet' = "NULL"
                          /\ pc' = "dec_failed"
                          /\ UNCHANGED <<heap, dec>>
                     ELSE \E ok \in BOOLEAN :
                            IF ok
                              THEN /\ heap' = heap \cup {"px"}
                                   /\ dec' = DecodeStart(d, in.size,
                                                DecodeChannels(in.channels, d))
                                   /\ pc' = "dec_loop"
                                   /\ UNCHANGED <<errno, decRet>>
                              ELSE /\ errno' = "ENOMEM"
                                   /\ decRet' = "NULL"
                                   /\ pc' = "dec_failed"
                                   /\ UNCHANGED <<heap, dec>>
  /\ UNCHANGED <<in, ddesc0, decHist, file>>
  /\ UNCHANGED encVars

\* one pixel of the loop of qoi_decode
DecodeLoop ==
  /\ pc = "dec_loop"
  /\ dec.px_pos < dec.px_len
  /\ dec' = DecodePixel(dec, in.bytes)
  /\ decHist' = Append(decHist, dec'.mem)
  /\ UNCHANGED <<pc, errno, heap, in, ddesc, ddesc0, decRet, file>>
  /\ UNCHANGED encVars

\* the end of qoi_decode: return decoded pixels
DecodeReturn ==
  /\ pc = "dec_loop"
  /\ ~(dec.px_pos < dec.px_len)
  /\ decRet' = "px"
  /\ pc' = "dec_done"
  /\ UNCHANGED <<errno, heap, in, ddesc, ddesc0, dec, decHist, file>>
  /\ UNCHANGED encVars

----------------------------------------------------------------------------
(* The inputs of the model.                                                *)

Desc(w, h, c, cs) == [width |-> w, height |-> h, channels |-> c, colorspace |-> cs]

\* Pixels that between them reach every branch of the encoder: the start
\* pixel (a run from the first pixel on), the zero pixel (an index hit on
\* the zeroed table), small and wrapping differences (DIFF), a LUMA step
\* whose slot is that of the zero pixel, an RGB step and an alpha change.
Palette4 ==
  { Pixel(0, 0, 0, 255), Pixel(0, 0, 0, 0), Pixel(1, 1, 1, 255), Pixel(255, 0, 1, 255),
    Pixel(5, 5, 5, 255), Pixel(10, 20, 30, 255), Pixel(10, 20, 30, 128) }

Palette3 == { p \in Palette4 : p.a = 255 }

\* the tightly packed buffer of a sequence of pixels
Pack(ps, channels) ==
  [i \in 1..(Len(ps) * channels) |->
     LET p == ps[((i - 1) \div channels) + 1]
         k == (i - 1) % channels
     IN  IF k = 0 THEN p.r ELSE IF k = 1 THEN p.g ELSE IF k = 2 THEN p.b ELSE p.a]

\* the descriptors qoi_encode accepts, of at most MaxPixels pixels: rows
\* are sRGB, images of several rows linear
GoodDescs ==
  { d \in [width : 1..MaxPixels, height : 1..MaxPixels,
            channels : {3, 4}, colorspace : {0, 1}] :
      /\ d.width * d.height <= MaxPixels
      /\ d.colorspace = IF d.height > 1 THEN 1 ELSE 0 }

\* malformed descriptors, and descriptors around the pixel cap that
\* qoi_encode turns down before it reads a pixel
BadDescs ==
  { Desc(0, 1, 4, 0), Desc(1, 0, 4, 0), Desc(0, 0, 3, 1), Desc(1, 1, 2, 0),
    Desc(1, 1, 5, 0), Desc(1, 1, 0, 0), Desc(1, 1, 4, 2), Desc(2, 1, 3, 255),
    Desc(0, 1, 5, 2),
    Desc(20000, 20000, 4, 0), Desc(20000, 20001, 4, 0), Desc(20001, 20000, 3, 1),
    Desc(1, 400000000, 4, 0), Desc(400000000, 1, 3, 0), Desc(3, 133333333, 4, 0),
    Desc(1, 400000001, 3, 0), Desc(40000, 40000, 4, 1) }

\* rows of QOI_MAXIMUM_RUN pixels and of one and two more, for the runs
\* that reach the longest RUN chunk
LongDescs ==
  { Desc(QOI_MAXIMUM_RUN + k, 1, c, 0) : k \in 0..2, c \in {3, 4} }

\* a row of equal pixels, and one whose last pixel differs
LongRows(d) ==
  { [i \in 1..d.width |-> IF i <= k THEN p ELSE q] :
      k \in {d.width - 1, d.width},
      p \in {PixelStart, Pixel(1, 1, 1, 255)},
      q \in {PixelStart, Pixel(10, 20, 30, 255)} }

\* the buffers a caller passes with descriptor d
Buffers(d) ==
  IF d \in GoodDescs
    THEN { Pack(ps, d.channels) :
             ps \in [1..(d.width * d.height) -> IF d.channels = 4 THEN Palette4 ELSE Palette3] }
  ELSE IF d \in LongDescs
    THEN { Pack(ps, d.channels) : ps \in LongRows(d) }
    ELSE { [i \in 1..(IF d.width * d.height <= MaxPixels
                        THEN d.width * d.height * d.channels ELSE 0) |-> 0] }

DescZero == Desc(0, 0, 0, 0)

\* the channels arguments given to qoi_decode
TargetChannels == {0, 3, 4, 5}

----------------------------------------------------------------------------
(* Spec: qoi_encode on an image, then qoi_decode on what it returned.      *)

\* the wrapper's state when neither qoi_read nor qoi_write is running
FileIdle ==
  [call |-> "none", pc |-> "none", f |-> "none", content |-> <<>>, channels |-> 0,
   sz |-> 0, bytes_read |-> 0, ret |-> "none", written |-> 0]

Init ==
  /\ pc = "enc_call"
  /\ errno = "none"
  /\ heap = {}
  /\ desc \in GoodDescs \cup LongDescs \cup BadDescs
  /\ data \in Buffers(desc)
  /\ enc = EncodeIdle
  /\ encRet = RetNone
  /\ encHist = <<>>
  /\ in = [bytes |-> <<>>, size |-> 0, channels |-> 0]
  /\ ddesc = DescZero
  /\ ddesc0 = DescZero
  /\ dec = DecodeIdle
  /\ decRet = "none"
  /\ decHist = <<>>
  /\ file = FileIdle

\* the caller hands the stream qoi_encode returned to qoi_decode, with a
\* zeroed descriptor as main() has it
RoundTrip ==
  /\ pc = "enc_done"
  /\ \E channels \in TargetChannels :
       in' = [bytes |-> enc.bytes, size |-> encRet.size, channels |-> channels]
  /\ pc' = "dec_call"
  /\ UNCHANGED <<errno, heap, ddesc, ddesc0, dec, decRet, decHist, file>>
  /\ UNCHANGED encVars

Next ==
  \/ EncodeEnter
  \/ EncodeLoop
  \/ EncodeReturn
  \/ RoundTrip
  \/ DecodeEnter
  \/ DecodeLoop
  \/ DecodeReturn

Spec == Init /\ [][Next]_vars

----------------------------------------------------------------------------
(* SpecDecode: qoi_decode on streams that no encoder need have written.    *)

\* the 14 header bytes of a stream
HeaderBytes(magic, d) ==
  qoi_write_32(magic) \o qoi_write_32(d.width) \o qoi_write_32(d.height)
    \o <<d.channels, d.colorspace>>

\* Chunk bytes: one first byte of each kind of chunk (RGBA, RGB, INDEX of
\* the start pixel's slot, DIFF, LUMA, RUN of 2), which serve as payload
\* bytes too.
ChunkByteSet == {255, 254, 53, 127, 165, 193}

ChunkSeqs == UNION { [1..n -> ChunkByteSet] : n \in 0..MaxChunkBytes }

\* headers qoi_decode accepts, of at most MaxPixels pixels
GoodHeaders ==
  { Desc(w, 1, c, 0) : w \in 1..MaxPixels, c \in {3, 4} } \cup { Desc(1, 2, 4, 1) }

\* streams with an accepted header, any chunk bytes and the padding
GoodStreams ==
  { HeaderBytes(QOI_MAGIC, d) \o cs \o qoi_padding : d \in GoodHeaders, cs \in ChunkSeqs }

\* streams qoi_decode turns down: a wrong magic, a malformed header, a
\* header around the pixel cap, a stream cut short
BadStreams ==
  { HeaderBytes(QOI_MAGIC, d) \o <<193>> \o qoi_padding :
      d \in BadDescs }
  \cup { HeaderBytes(QOI_MAGIC - 1, Desc(1, 1, 4, 0)) \o <<193>> \o qoi_padding,
         HeaderBytes(0, Desc(2, 1, 3, 1)) \o <<193>> \o qoi_padding,
         HeaderBytes(QOI_MAGIC, Desc(1, 1, 4, 0)) \o SubSeq(qoi_padding, 1, 7),
         HeaderBytes(QOI_MAGIC, Desc(1, 1, 4, 0)),
         SubSeq(qoi_padding, 1, 4),
         <<>> }

\* streams with an accepted header whose last 8 bytes are not the padding
TailStreams ==
  { HeaderBytes(QOI_MAGIC, d) \o cs \o [i \in 1..PaddingSize |-> t] :
      d \in {Desc(1, 1, 4, 0), Desc(2, 1, 3, 0)},
      cs \in {<<>>, <<255>>, <<254>>, <<165>>},
      t \in {255, 165} }

\* the calls of qoi_decode the model makes
DecodeInputs ==
  { [bytes |-> b, size |-> Len(b), channels |-> c] : b \in TailStreams, c \in {0, 3, 4} }
  \cup { [bytes |-> b, size |-> Len(b), channels |-> c] : b \in GoodStreams, c \in {0, 3, 4} }
  \cup { [bytes |-> b, size |-> Len(b), channels |-> c] : b \in BadStreams, c \in {0, 3, 4} }
  \cup { [bytes |-> HeaderBytes(QOI_MAGIC, d) \o <<193>> \o qoi_padding,
          size |-> QOI_HEADER_SIZE + 1 + PaddingSize, channels |-> c] :
           d \in {Desc(1, 1, 4, 0), Desc(2, 1, 3, 0)}, c \in TargetChannels }

InitDecode ==
  /\ pc = "dec_call"
  /\ errno = "none"
  /\ heap = {}
  /\ desc = DescZero
  /\ data = <<>>
  /\ enc = EncodeIdle
  /\ encRet = RetNone
  /\ encHist = <<>>
  /\ in \in DecodeInputs
  /\ ddesc \in {DescZero, Desc(7, 7, 4, 1)}
  /\ ddesc0 = ddesc
  /\ dec = DecodeIdle
  /\ decRet = "none"
  /\ decHist = <<>>
  /\ file = FileIdle

NextDecode ==
  \/ DecodeEnter
  \/ DecodeLoop
  \/ DecodeReturn

SpecDecode == InitDecode /\ [][NextDecode]_vars

----------------------------------------------------------------------------
(* SpecStreams: the runs of Spec on rows of three pixels and on the long   *)
(* rows, and qoi_decode on hand-made streams that qoi_encode does not      *)
(* write: an RGBA chunk under a 3-channel header, an INDEX of a slot never *)
(* written, every byte with the tag of RUN, and the longest runs in rows   *)
(* long enough to replay them.                                             *)

HandMadeStreams ==
  { HeaderBytes(QOI_MAGIC, d) \o cs \o qoi_padding :
      d \in {Desc(2, 1, 3, 0), Desc(2, 1, 4, 0)},
      cs \in {<<255, 1, 2, 3, 4>>, <<53>>, <<254, 1, 2, 3>>}
               \cup { <<b>> : b \in QOI_OP_RUN..255 } }
  \cup
  { HeaderBytes(QOI_MAGIC, Desc(QOI_MAXIMUM_RUN + 2, 1, c, 0)) \o cs \o qoi_padding :
      c \in {3, 4}, cs \in {<<253>>, <<253, 193>>, <<127, 253, 127>>} }

InitHandMade ==
  /\ pc = "dec_call"
  /\ errno = "none"
  /\ heap = {}
  /\ desc = DescZero
  /\ data = <<>>
  /\ enc = EncodeIdle
  /\ encRet = RetNone
  /\ encHist = <<>>
  /\ \E b \in HandMadeStreams, c \in {0, 3, 4} :
       in = [bytes |-> b, size |-> Len(b), channels |-> c]
  /\ ddesc = DescZero
  /\ ddesc0 = DescZero
  /\ dec = DecodeIdle
  /\ decRet = "none"
  /\ decHist = <<>>
  /\ file = FileIdle

\* the rows whose streams the encoder writes for the decoder
StreamDescs == LongDescs \cup {Desc(3, 1, 3, 0), Desc(3, 1, 4, 0)}

InitEncoded ==
  /\ pc = "enc_call"
  /\ errno = "none"
  /\ heap = {}
  /\ desc \in StreamDescs
  /\ data \in Buffers(desc)
  /\ enc = EncodeIdle
  /\ encRet = RetNone
  /\ encHist = <<>>
  /\ in = [bytes |-> <<>>, size |-> 0, channels |-> 0]
  /\ ddesc = DescZero
  /\ ddesc0 = DescZero
  /\ dec = DecodeIdle
  /\ decRet = "none"
  /\ decHist = <<>>
  /\ file = FileIdle

InitStreams == InitEncoded \/ InitHandMade

SpecStreams == InitStreams /\ [][Next]_vars

----------------------------------------------------------------------------
(* SpecWrap: the runs of Spec on images of two pixels whose second pixel   *)
(* is the first plus a difference per channel, modulo 256, the differences *)
(* lying on both sides of every limit of DIFF and LUMA and at the ends of  *)
(* the signed byte.                                                        *)

\* the differences in green
WrapGreen == {-128, -33, -32, -3, -2, 0, 1, 2, 31, 32, 127}

\* the differences in red and blue, relative to green
WrapRed == {-9, -8, -3, -2, 0, 1, 2, 7, 8}
WrapBlue == {-9, -8, 0, 1, 7, 8}

\* the first pixels: at the ends and in the middle of the byte
WrapBases == { Pixel(0, 0, 0, 255), Pixel(255, 255, 255, 255), Pixel(128, 127, 1, 255) }

\* p moved by the differences, each channel modulo 256
Moved(p, dr, dg, db) ==
  Pixel((p.r + dr) % 256, (p.g + dg) % 256, (p.b + db) % 256, p.a)

WrapRows ==
  { <<p, Moved(p, dg + er, dg, dg + eb)>> :
      p \in WrapBases, dg \in WrapGreen, er \in WrapRed, eb \in WrapBlue }

InitWrap ==
  /\ pc = "enc_call"
  /\ errno = "none"
  /\ heap = {}
  /\ desc \in {Desc(2, 1, 3, 0), Desc(2, 1, 4, 0)}
  /\ data \in { Pack(ps, desc.channels) : ps \in WrapRows }
  /\ enc = EncodeIdle
  /\ encRet = RetNone
  /\ encHist = <<>>
  /\ in = [bytes |-> <<>>, size |-> 0, channels |-> 0]
  /\ ddesc = DescZero
  /\ ddesc0 = DescZero
  /\ dec = DecodeIdle
  /\ decRet = "none"
  /\ decHist = <<>>
  /\ file = FileIdle

SpecWrap == InitWrap /\ [][Next]_vars

----------------------------------------------------------------------------
(* SpecCapacity: qoi_encode alone, on the images of Spec and on            *)
(* descriptors just below and at the pixel cap.  The pixel buffers of the  *)
(* latter are too large to enumerate: their runs stop where the loop       *)
(* would read the first pixel.                                             *)

\* descriptors around QOI_MAXIMUM_PIXELS, accepted and turned down
CapDescs ==
  { Desc(w, h, c, IF h > 1 THEN 1 ELSE 0) :
      c \in {3, 4},
      <<w, h>> \in { <<20000, 19999>>, <<19999, 20000>>, <<1, 399999999>>,
                     <<200000000, 1>>, <<3, 133333332>>, <<133333333, 2>>,
                     <<2, 199999999>>, <<399999999, 1>>, <<20000, 20000>>,
                     <<1, 400000000>>, <<20000, 21000>> } }

InitCapacity ==
  /\ pc = "enc_call"
  /\ errno = "none"
  /\ heap = {}
  /\ desc \in GoodDescs \cup LongDescs \cup CapDescs
  /\ data \in Buffers(desc)
  /\ enc = EncodeIdle
  /\ encRet = RetNone
  /\ encHist = <<>>
  /\ in = [bytes |-> <<>>, size |-> 0, channels |-> 0]
  /\ ddesc = DescZero
  /\ ddesc0 = DescZero
  /\ dec = DecodeIdle
  /\ decRet = "none"
  /\ decHist = <<>>
  /\ file = FileIdle

\* the loop and the return of qoi_encode where the pixels are at hand
CapacityLoop == desc \notin CapDescs /\ EncodeLoop
CapacityReturn == desc \notin CapDescs /\ EncodeReturn

NextCapacity == EncodeEnter \/ CapacityLoop \/ CapacityReturn

SpecCapacity == InitCapacity /\ [][NextCapacity]_vars

----------------------------------------------------------------------------
(* qoi_read and qoi_write.  file.pc is the wrapper's position, file.f the  *)
(* state of its FILE handle; pc is the position of the codec function the  *)
(* wrapper has called.  Each libc call succeeds or fails as the            *)
(* environment chooses.  fclose releases the handle whether it returns 0   *)
(* or EOF.                                                                 *)

\* return NULL / return 0 from the wrapper, with what it holds left as it is
FileFail(fl) == [fl EXCEPT !.pc = "returned", !.ret = "failed"]

\* qoi_read: the argument guard and fopen(filename, "rb")
ReadOpen ==
  /\ file.call = "read" /\ file.pc = "call"
  /\ IF file.channels # 0 /\ file.channels # 3 /\ file.channels # 4
       THEN file' = FileFail(file)
       ELSE \E ok \in BOOLEAN :
              file' = IF ok THEN [file EXCEPT !.f = "open", !.pc = "seek_end"]
                            ELSE FileFail(file)
  /\ UNCHANGED <<pc, errno, heap>>
  /\ UNCHANGED encVars
  /\ UNCHANGED decVars

\* qoi_read: fseek(f, 0, SEEK_END)
ReadSeekEnd ==
  /\ file.call = "read" /\ file.pc = "seek_end"
  /\ \E rc \in {0, -1} :
       file' = IF rc # 0 THEN FileFail(file) ELSE [file EXCEPT !.pc = "tell"]
  /\ UNCHANGED <<pc, errno, heap>>
  /\ UNCHANGED encVars
  /\ UNCHANGED decVars

\* qoi_read: sz = ftell(f), and the fclose of an empty or unreadable file
ReadTell ==
  /\ file.call = "read" /\ file.pc = "tell"
  /\ \E sz \in {Len(file.content), -1} :
       IF sz <= 0
         THEN \E rc \in {0, -1} :
                file' = FileFail([file EXCEPT !.sz = sz, !.f = "closed"])
         ELSE file' = [file EXCEPT !.sz = sz, !.pc = "seek_set"]
  /\ UNCHANGED <<pc, errno, heap>>
  /\ UNCHANGED encVars
  /\ UNCHANGED decVars

\* qoi_read: fseek(f, 0, SEEK_SET)
ReadSeekSet ==
  /\ file.call = "read" /\ file.pc = "seek_set"
  /\ \E rc \in {0, -1} :
       file' = IF rc # 0 THEN FileFail(file) ELSE [file EXCEPT !.pc = "malloc"]
  /\ UNCHANGED <<pc, errno, heap>>
  /\ UNCHANGED encVars
  /\ UNCHANGED decVars

\* qoi_read: data = malloc(sz), and the fclose when it fails
ReadMalloc ==
  /\ file.call = "read" /\ file.pc = "malloc"
  /\ \E ok \in BOOLEAN :
       IF ok
         THEN /\ heap' = heap \cup {"data"}
              /\ file' = [file EXCEPT !.pc = "fread"]
         ELSE /\ \E rc \in {0, -1} : file' = FileFail([file EXCEPT !.f = "closed"])
              /\ UNCHANGED heap
  /\ UNCHANGED <<pc, errno>>
  /\ UNCHANGED encVars
  /\ UNCHANGED decVars

\* qoi_read: bytes_read = fread(data, 1, sz, f)
ReadFread ==
  /\ file.call = "read" /\ file.pc = "fread"
  /\ \E n \in {0, QOI_HEADER_SIZE, file.sz} :
       /\ n <= file.sz
       /\ file' = [file EXCEPT !.bytes_read = n, !.pc = "close"]
  /\ UNCHANGED <<pc, errno, heap>>
  /\ UNCHANGED encVars
  /\ UNCHANGED decVars

\* qoi_read: fclose(f), then the call of qoi_decode(data, bytes_read, desc, channels)
ReadClose ==
  /\ file.call = "read" /\ file.pc = "close"
  /\ \E rc \in {0, -1} :
       IF rc # 0
         THEN /\ file' = FileFail([file EXCEPT !.f = "closed"])
              /\ UNCHANGED <<pc, in>>
         ELSE /\ file' = [file EXCEPT !.f = "closed", !.pc = "in_decode"]
              /\ in' = [bytes    |-> SubSeq(file.content, 1, file.bytes_read),
                        size     |-> file.bytes_read,
                        channels |-> file.channels]
              /\ pc' = "dec_call"
  /\ UNCHANGED <<errno, heap, ddesc, ddesc0, dec, decRet, decHist>>
  /\ UNCHANGED encVars

\* qoi_read: qoi_decode has returned; free(data); return p
ReadReturn ==
  /\ file.call = "read" /\ file.pc = "in_decode"
  /\ pc \in {"dec_done", "dec_failed"}
  /\ heap' = heap \ {"data"}
  /\ file' = [file EXCEPT !.pc = "returned",
                          !.ret = IF decRet = "NULL" THEN "failed" ELSE "ok"]
  /\ pc' = "file"
  /\ UNCHANGED errno
  /\ UNCHANGED encVars
  /\ UNCHANGED decVars

\* qoi_write: fopen(filename, "wb"), then the call of qoi_encode(data, desc, &sz)
WriteOpen ==
  /\ file.call = "write" /\ file.pc = "call"
  /\ \E ok \in BOOLEAN :
       IF ok
         THEN /\ file' = [file EXCEPT !.f = "open", !.pc = "in_encode"]
              /\ pc' = "enc_call"
         ELSE /\ file' = FileFail(file)
              /\ UNCHANGED pc
  /\ UNCHANGED <<errno, heap>>
  /\ UNCHANGED encVars
  /\ UNCHANGED decVars

\* qoi_write: qoi_encode has returned; the fclose when it returned NULL
WriteEncoded ==
  /\ file.call = "write" /\ file.pc = "in_encode"
  /\ pc \in {"enc_done", "enc_failed"}
  /\ IF encRet.ret = "NULL"
       THEN \E rc \in {0, -1} : file' = FileFail([file EXCEPT !.f = "closed"])
       ELSE file' = [file EXCEPT !.sz = encRet.size, !.pc = "fwrite"]
  /\ pc' = "file"
  /\ UNCHANGED <<errno, heap>>
  /\ UNCHANGED encVars
  /\ UNCHANGED decVars

\* qoi_write: rc = fwrite(p, 1, sz, f)
WriteFwrite ==
  /\ file.call = "write" /\ file.pc = "fwrite"
  /\ \E rc \in {0, QOI_HEADER_SIZE, file.sz} :
       file' = IF rc # file.sz
                 THEN FileFail([file EXCEPT !.content = SubSeq(enc.bytes, 1, rc)])
                 ELSE [file EXCEPT !.content = enc.bytes, !.pc = "close"]
  /\ UNCHANGED <<pc, errno, heap>>
  /\ UNCHANGED encVars
  /\ UNCHANGED decVars

\* qoi_write: fclose(f); free(p); return sz
WriteClose ==
  /\ file.call = "write" /\ file.pc = "close"
  /\ \E rc \in {0, -1} :
       IF rc # 0
         THEN /\ file' = FileFail([file EXCEPT !.f = "closed"])
              /\ UNCHANGED heap
         ELSE /\ file' = [file EXCEPT !.f = "closed", !.pc = "returned",
                                      !.ret = "ok", !.written = file.sz]
              /\ heap' = heap \ {"bytes"}
  /\ UNCHANGED <<pc, errno>>
  /\ UNCHANGED encVars
  /\ UNCHANGED decVars

----------------------------------------------------------------------------
(* SpecFile: one call of qoi_read or of qoi_write.                         *)

\* the files qoi_read is given: streams of one and two pixels, a stream
\* with a wrong magic, a stream cut short and an empty file
FileContents ==
  { HeaderBytes(QOI_MAGIC, Desc(1, 1, 4, 0)) \o <<193>> \o qoi_padding,
    HeaderBytes(QOI_MAGIC, Desc(2, 1, 3, 1)) \o <<254, 10, 20, 30, 127>> \o qoi_padding,
    HeaderBytes(QOI_MAGIC, Desc(2, 1, 4, 0)) \o <<255, 10, 20, 30, 128>> \o qoi_padding,
    HeaderBytes(QOI_MAGIC - 1, Desc(1, 1, 4, 0)) \o <<193>> \o qoi_padding,
    HeaderBytes(QOI_MAGIC, Desc(1, 1, 4, 0)) \o <<193>>,
    <<>> }

\* the images qoi_write is given
FileDescs == { Desc(1, 1, 4, 0), Desc(2, 1, 3, 1), Desc(1, 1, 4, 2), Desc(0, 1, 3, 0) }

InitFile ==
  /\ pc = "file"
  /\ errno = "none"
  /\ heap = {}
  /\ enc = EncodeIdle
  /\ encRet = RetNone
  /\ encHist = <<>>
  /\ in = [bytes |-> <<>>, size |-> 0, channels |-> 0]
  /\ ddesc = DescZero
  /\ ddesc0 = DescZero
  /\ dec = DecodeIdle
  /\ decRet = "none"
  /\ decHist = <<>>
  /\ \/ /\ desc = DescZero
        /\ data = <<>>
        /\ \E c \in FileContents, ch \in TargetChannels :
             file = [FileIdle EXCEPT !.call = "read", !.pc = "call",
                                     !.content = c, !.channels = ch]
     \/ /\ desc \in FileDescs
        /\ data \in Buffers(desc)
        /\ file = [FileIdle EXCEPT !.call = "write", !.pc = "call"]

NextFile ==
  \/ ReadOpen
  \/ ReadSeekEnd
  \/ ReadTell
  \/ ReadSeekSet
  \/ ReadMalloc
  \/ ReadFread
  \/ ReadClose
  \/ ReadReturn
  \/ WriteOpen
  \/ WriteEncoded
  \/ WriteFwrite
  \/ WriteClose
  \/ EncodeEnter
  \/ EncodeLoop
  \/ EncodeReturn
  \/ DecodeEnter
  \/ DecodeLoop
  \/ DecodeReturn

SpecFile == InitFile /\ [][NextFile]_vars

----------------------------------------------------------------------------
(* What the claims read off a stream, computed apart from the codec.       *)

BigEndian(bs) == bs[1] * 16777216 + bs[2] * 65536 + bs[3] * 256 + bs[4]

StreamMagic(b) == BigEndian(SubSeq(b, 1, 4))
StreamDesc(b) ==
  Desc(BigEndian(SubSeq(b, 5, 8)), BigEndian(SubSeq(b, 9, 12)), b[13], b[14])

\* the length of the chunk whose first byte is b1 (format table of the spec)
ChunkLength(b1) ==
  IF b1 = 255 THEN 5 ELSE IF b1 = 254 THEN 4
  ELSE IF b1 >= 128 /\ b1 < 192 THEN 2 ELSE 1

\* where the chunk after the chunks from offset i on ends, at or after e
RECURSIVE ChunksEnd(_, _, _)
ChunksEnd(b, i, e) ==
  IF i >= e THEN i ELSE ChunksEnd(b, i + ChunkLength(b[i + 1]), e)

Pixels(d) == d.width * d.height

----------------------------------------------------------------------------
(* Claims on Spec.                                                         *)

\* C1: Round trip.  When qoi_decode has returned the pixels of a stream
\* that qoi_encode wrote, with the target channel count equal to the
\* descriptor's, the buffer equals the encoder's input byte for byte and
\* the descriptor filled in equals the encoder's.
RoundTripExact ==
  (pc = "dec_done" /\ encRet.ret = "bytes" /\ in.channels = desc.channels)
    => (decRet = "px" /\ dec.px = data /\ ddesc = desc)

RoundTripReached ==
  /\ pc = "dec_done"
  /\ in.channels = desc.channels
  /\ Pixels(desc) >= 3
  /\ enc.op = "INDEX"
  /\ dec.px = data

\* C2: Stream framing.  A stream qoi_encode returns starts with the magic,
\* the width and height big-endian, the channels and the colorspace, ends
\* with the padding 00 00 00 00 00 00 00 01, and *size is its length: the
\* chunks tile the bytes from offset 14 to size - 8 exactly.
StreamFraming ==
  encRet.ret = "bytes" =>
    LET b == enc.bytes
        n == encRet.size
    IN  /\ n = Len(b)
        /\ n >= QOI_HEADER_SIZE + 8
        /\ \A i \in 1..n : b[i] \in 0..255
        /\ SubSeq(b, 1, 4) = <<113, 111, 105, 102>>
        /\ BigEndian(SubSeq(b, 5, 8)) = desc.width
        /\ BigEndian(SubSeq(b, 9, 12)) = desc.height
        /\ b[13] = desc.channels
        /\ b[14] = desc.colorspace
        /\ SubSeq(b, n - 7, n) = <<0, 0, 0, 0, 0, 0, 0, 1>>
        /\ ChunksEnd(b, 14, n - 8) = n - 8

StreamFramingReached ==
  /\ encRet.ret = "bytes"
  /\ desc.height = 3
  /\ desc.colorspace = 1
  /\ encRet.size > QOI_HEADER_SIZE + 8 + 5

\* C3: qoi_encode on a descriptor with width 0, height 0, channels not 3
\* or 4, or colorspace above 1 returns NULL with errno EINVAL, has written
\* no byte and holds no allocation.
EncodeRejectsMalformed ==
  (/\ pc # "enc_call"
   /\ \/ desc.width = 0
      \/ desc.height = 0
      \/ desc.channels \notin {3, 4}
      \/ desc.colorspace > 1)
    => /\ pc = "enc_failed"
       /\ encRet = [ret |-> "NULL", size |-> 0]
       /\ errno = "EINVAL"
       /\ enc.bytes = <<>>
       /\ heap = {}

EncodeRejectsMalformedReached ==
  /\ pc = "enc_failed"
  /\ errno = "EINVAL"
  /\ desc.width > 0 /\ desc.height > 0 /\ desc.channels = 4
  /\ desc.colorspace > 1

\* C4: Pixel cap.  A descriptor that is otherwise valid is turned down by
\* qoi_encode for its size exactly when height * width exceeds
\* QOI_MAXIMUM_PIXELS.
PixelCapExact ==
  (/\ pc # "enc_call"
   /\ desc.width > 0 /\ desc.height > 0
   /\ desc.channels \in {3, 4} /\ desc.colorspace <= 1)
    => ((encRet.ret = "NULL" /\ errno = "EINVAL")
          <=> desc.width * desc.height > QOI_MAXIMUM_PIXELS)

\* C9: Hash-table coherence.  After every pixel position the table of
\* qoi_decode equals the table qoi_encode had after that position.
TablesCoherent ==
  \A i \in 1..Len(decHist) : i <= Len(encHist) => decHist[i] = encHist[i]

----------------------------------------------------------------------------
(* Claims on SpecDecode.                                                   *)

\* what C5 lists as grounds to turn a call of qoi_decode down
DecodeInputMalformed ==
  \/ in.size < 14 + 8
  \/ in.channels \notin {0, 3, 4}
  \/ StreamMagic(in.bytes) # 1903126886
  \/ StreamDesc(in.bytes).width = 0
  \/ StreamDesc(in.bytes).height = 0
  \/ StreamDesc(in.bytes).channels \notin {3, 4}
  \/ StreamDesc(in.bytes).colorspace > 1
  \/ Pixels(StreamDesc(in.bytes)) > QOI_MAXIMUM_PIXELS

\* C5: qoi_decode returns NULL with errno EINVAL, and no pixel buffer
\* exists, when the input is shorter than 22 bytes, the magic is wrong, the
\* width or height is 0, the channels are not 3 or 4, the colorspace is
\* above 1, the pixel cap is exceeded or the target is not 0, 3 or 4.
DecodeRejectsMalformed ==
  (pc # "dec_call" /\ DecodeInputMalformed)
    => /\ pc = "dec_failed"
       /\ decRet = "NULL"
       /\ errno = "EINVAL"
       /\ dec.px = <<>>
       /\ "px" \notin heap

DecodeRejectsMalformedReached ==
  /\ pc = "dec_failed"
  /\ errno = "EINVAL"
  /\ in.size >= 14 + 8
  /\ in.channels = 4
  /\ StreamMagic(in.bytes) # 1903126886
  /\ ~EncodeArgsInvalid(StreamDesc(in.bytes))

\* C6: No partial commit.  When qoi_decode has returned NULL the caller's
\* descriptor is as it was when qoi_decode was called.
DescriptorKeptOnFailure ==
  decRet = "NULL" => ddesc = ddesc0

\* the header's image ends at least one row below the pixel cap (the rows
\* nearer to the cap are the subject of C4)
BelowCapByARow(d) == Pixels(d) + d.width <= QOI_MAXIMUM_PIXELS

\* C10: On a stream with a valid header qoi_decode fails only for want of
\* memory; every iteration of its loop writes one pixel and moves on, so
\* the loop ends; it returns with width * height pixels written; and once
\* the cursor is at size - 8, each further position gets the pixel curr
\* held at that time.
DecodeFillsOutput ==
  /\ [](pc = "dec_failed" /\ ~DecodeInputMalformed
          /\ BelowCapByARow(StreamDesc(in.bytes)) => errno = "ENOMEM")
  /\ [](pc = "dec_done" =>
          /\ decRet = "px"
          /\ Len(dec.px) = Pixels(StreamDesc(in.bytes)) * dec.channels
          /\ Len(decHist) = Pixels(StreamDesc(in.bytes)))
  /\ [][pc = "dec_loop" =>
          /\ pc' \in {"dec_loop", "dec_done"}
          /\ pc' = "dec_loop" =>
               /\ dec'.px_pos = dec.px_pos + dec.channels
               /\ dec'.px_pos <= dec.px_len
               /\ Len(dec'.px) = dec'.px_pos
               /\ dec.idx >= in.size - 8 =>
                    /\ dec'.px_curr = dec.px_curr
                    /\ dec'.idx = dec.idx
                    /\ SubSeq(dec'.px, dec.px_pos + 1, dec.px_pos + 3)
                         = <<dec.px_curr.r, dec.px_curr.g, dec.px_curr.b>>
                    /\ dec.channels = 4 => dec'.px[dec.px_pos + 4] = dec.px_curr.a
     ]_vars

DecodeFillsOutputReached ==
  /\ pc = "dec_done"
  /\ dec.op = "exhausted"
  /\ Len(decHist) = 3
  /\ dec.idx > QOI_HEADER_SIZE
  /\ dec.px_curr # PixelStart

----------------------------------------------------------------------------
(* Claims on SpecFile.                                                     *)

\* C7: File handle release.  When qoi_read or qoi_write has returned, a
\* handle it opened is closed.
HandleClosedOnReturn ==
  file.pc = "returned" => file.f # "open"

\* C8: Allocation release on error.  When qoi_read or qoi_write has
\* returned its failure value, the file-contents buffer of qoi_read and
\* the encoded buffer of qoi_write are freed.
BuffersFreedOnError ==
  (file.pc = "returned" /\ file.ret = "failed")
    => ("data" \notin heap /\ "bytes" \notin heap)

----------------------------------------------------------------------------
(* Claims on the encoder's chunks, on Spec.                                *)

\* qoi_encode has returned a stream
Encoded == encRet.ret = "bytes"

\* the chunk bytes of the stream returned: all but header and padding
Chunks == SubSeq(enc.bytes, QOI_HEADER_SIZE + 1, Len(enc.bytes) - PaddingSize)

\* pixel i of the caller's buffer, counted from 1
DataPixel(i) ==
  LET o == (i - 1) * desc.channels
  IN  Pixel(data[o + 1], data[o + 2], data[o + 3],
            IF desc.channels = 4 THEN data[o + 4] ELSE 255)

\* all pixels of the caller's buffer are the same
Uniform == \A i \in 1..Pixels(desc) : DataPixel(i) = DataPixel(1)

\* C12: Run boundary.  An image of 62 pixels all equal to the start pixel
\* (0,0,0,255) is encoded as the one RUN byte 0xFD, and one of 63 such
\* pixels as 0xFD followed by 0xC0.
RunBoundary ==
  Encoded /\ Uniform /\ DataPixel(1) = Pixel(0, 0, 0, 255) =>
    /\ (Pixels(desc) = 62 => Chunks = <<253>>)
    /\ (Pixels(desc) = 63 => Chunks = <<253, 192>>)

\* 63 start pixels have been encoded
RunBoundaryReached ==
  /\ Encoded
  /\ Pixels(desc) = 63
  /\ Uniform
  /\ DataPixel(1) = Pixel(0, 0, 0, 255)
  /\ Chunks = <<253, 192>>

\* C12 as stated: any 62 identical pixels are encoded as the one byte 0xFD
\* and any 63 as 0xFD, 0xC0.
RunBoundaryAnyPixel ==
  Encoded /\ Uniform =>
    /\ (Pixels(desc) = 62 => Chunks = <<253>>)
    /\ (Pixels(desc) = 63 => Chunks = <<253, 192>>)

\* the number of pixels the encoder's loop has done, the last of them and
\* the pixel before it, read from the caller's buffer
EncDone == enc.px_pos \div desc.channels
EncCurr == DataPixel(EncDone)
EncPrev == IF EncDone = 1 THEN Pixel(0, 0, 0, 255) ELSE DataPixel(EncDone - 1)

\* the encoder is between two iterations of its loop, one at least done
EncStepped == pc = "enc_loop" /\ enc.px_pos > 0

\* C13: Zero difference.  A pixel whose differences to the previous pixel
\* are all 0, alpha equal, is the previous pixel: the encoder takes the RUN
\* branch for it, and no DIFF byte it emits is 0x6A, the byte the DIFF
\* formula gives for zero differences.
ZeroDifferenceIsRun ==
  EncStepped =>
    /\ (EncCurr = EncPrev => enc.op = "RUN")
    /\ (enc.op = "DIFF" => enc.bytes[enc.idx] # OpDiff(0, 0, 0))
    /\ OpDiff(0, 0, 0) = 106

\* a pixel other than the start pixel has just been repeated
ZeroDifferenceIsRunReached ==
  /\ EncStepped
  /\ EncDone > 1
  /\ EncCurr = EncPrev
  /\ EncCurr # Pixel(0, 0, 0, 255)
  /\ enc.op = "RUN"

\* C13 as stated: for a pixel with zero differences and equal alpha the
\* encoder emits the DIFF byte 0x6A.
ZeroDifferenceIsDiff ==
  EncStepped /\ EncCurr = EncPrev =>
    enc.op = "DIFF" /\ enc.bytes[enc.idx] = 106

\* the difference a - b of two bytes modulo 256, read as a signed byte
SignedDiff(a, b) == ((a - b + 128) % 256) - 128

\* the table slot of a pixel
SlotOf(p) == (3 * p.r + 5 * p.g + 7 * p.b + 11 * p.a) % 64

\* the encoder's table before the iteration it has just done
EncTableBefore ==
  IF EncDone = 1 THEN [i \in 0..63 |-> Pixel(0, 0, 0, 0)] ELSE encHist[EncDone - 1]

\* DIFF and LUMA fit the step from p to c
DiffFits(c, p) ==
  /\ c.a = p.a
  /\ SignedDiff(c.r, p.r) \in -2..1
  /\ SignedDiff(c.g, p.g) \in -2..1
  /\ SignedDiff(c.b, p.b) \in -2..1
LumaFits(c, p) ==
  /\ c.a = p.a
  /\ SignedDiff(c.g, p.g) \in -32..31
  /\ SignedDiff(c.r, p.r) - SignedDiff(c.g, p.g) \in -8..7
  /\ SignedDiff(c.b, p.b) - SignedDiff(c.g, p.g) \in -8..7

\* the first rule that applies to pixel c after p with table t
FirstRule(c, p, t) ==
  IF c = p THEN "RUN"
  ELSE IF t[SlotOf(c)] = c THEN "INDEX"
  ELSE IF DiffFits(c, p) THEN "DIFF"
  ELSE IF LumaFits(c, p) THEN "LUMA"
  ELSE IF c.a = p.a THEN "RGB"
  ELSE "RGBA"

\* the length of a chunk of each kind, and the values of its first byte
OpLength(op) ==
  IF op = "RGBA" THEN 5 ELSE IF op = "RGB" THEN 4 ELSE IF op = "LUMA" THEN 2 ELSE 1
OpTags(op) ==
  IF op = "RGBA" THEN {255} ELSE IF op = "RGB" THEN {254}
  ELSE IF op = "LUMA" THEN 128..191 ELSE IF op = "DIFF" THEN 64..127
  ELSE IF op = "INDEX" THEN 0..63 ELSE 192..253

\* C14: Decision order.  For every pixel the encoder takes the first rule
\* that applies, in the order run, index hit, DIFF, LUMA, RGB, RGBA, and
\* the chunk it writes for a pixel that is not in a run has that rule's
\* tag and length.
DecisionOrder ==
  EncStepped =>
    /\ enc.op = FirstRule(EncCurr, EncPrev, EncTableBefore)
    /\ (enc.op # "RUN" =>
          /\ enc.idx - OpLength(enc.op) >= QOI_HEADER_SIZE
          /\ enc.bytes[enc.idx - OpLength(enc.op) + 1] \in OpTags(enc.op))

\* a pixel found in its table slot has been written as INDEX though DIFF
\* fits it
DecisionOrderReached ==
  /\ EncStepped
  /\ enc.op = "INDEX"
  /\ DiffFits(EncCurr, EncPrev)

\* the pixels that the chunks of b from offset i up to e stand for
RECURSIVE PixelCount(_, _, _)
PixelCount(b, i, e) ==
  IF i >= e THEN 0
  ELSE (IF b[i + 1] \in 192..253 THEN b[i + 1] - 191 ELSE 1)
         + PixelCount(b, i + ChunkLength(b[i + 1]), e)

\* C15: Run flush ordering.  In a step of the encoder that meets a pixel
\* differing from prev while run > 0, the byte 0xC0 | (run - 1) is written
\* at the cursor, the pixel's own chunk follows it, what was written before
\* stays, and run becomes 0; and when qoi_encode has returned, run is 0 and
\* the pixels its chunks stand for number width * height.
RunFlushedFirst ==
  /\ [][pc = "enc_loop" /\ enc.px_pos < enc.px_len /\ enc.run > 0
          /\ enc'.px_pos # enc.px_pos /\ DataPixel(EncDone + 1) # EncCurr
        => /\ enc'.bytes[enc.idx + 1] = 192 + (enc.run - 1)
           /\ enc'.run = 0
           /\ enc'.op # "RUN"
           /\ enc'.idx = enc.idx + 1 + OpLength(enc'.op)
           /\ enc'.bytes[enc.idx + 2] \in OpTags(enc'.op)
           /\ SubSeq(enc'.bytes, 1, enc.idx) = enc.bytes]_vars
  /\ [](Encoded =>
          /\ enc.run = 0
          /\ PixelCount(enc.bytes, QOI_HEADER_SIZE, Len(enc.bytes) - PaddingSize)
               = Pixels(desc))

\* the run of a repeated pixel has been flushed before the chunk of the
\* pixel that ended it
RunFlushedFirstReached ==
  /\ EncStepped
  /\ EncDone >= 3
  /\ EncCurr # EncPrev
  /\ EncPrev = DataPixel(EncDone - 2)
  /\ enc.run = 0
  /\ enc.bytes[enc.idx - OpLength(enc.op)] \in 192..253

\* C16: Encoder table frame.  An iteration of the encoder that takes the
\* RUN or the INDEX branch leaves all 64 table slots as they were; one that
\* takes the DIFF, LUMA, RGB or RGBA branch changes the slot of curr, which
\* held another value, to curr and leaves the 63 other slots as they were.
EncoderTableFrame ==
  EncStepped =>
    LET t0 == EncTableBefore
        c  == EncCurr
    IN  /\ encHist[EncDone] = enc.mem
        /\ (enc.op \in {"RUN", "INDEX"} => enc.mem = t0)
        /\ (enc.op \in {"DIFF", "LUMA", "RGB", "RGBA"} =>
              /\ enc.mem[SlotOf(c)] = c
              /\ t0[SlotOf(c)] # c
              /\ \A i \in (0..63) \ {SlotOf(c)} : enc.mem[i] = t0[i])

\* a LUMA iteration has changed a slot of a table that held pixels already,
\* and a run has left a table that held pixels as it was
EncoderTableFrameReached ==
  /\ EncStepped
  /\ EncDone >= 3
  /\ enc.op = "LUMA"
  /\ encHist[EncDone - 1] = encHist[EncDone - 2]
  /\ encHist[EncDone - 1] # [i \in 0..63 |-> Pixel(0, 0, 0, 0)]
  /\ EncPrev = DataPixel(EncDone - 2)

----------------------------------------------------------------------------
(* Claims on SpecStreams.                                                  *)

\* the pixel buffer qoi_decode fills from the stream in hand when it is
\* asked for the given channel count
RECURSIVE DecodeRun(_, _)
DecodeRun(s, bytes) ==
  IF s.px_pos < s.px_len THEN DecodeRun(DecodePixel(s, bytes), bytes) ELSE s.px

DecodedAs(channels) ==
  DecodeRun(DecodeStart(StreamDesc(in.bytes), in.size, channels), in.bytes)

\* the r,g,b of a buffer of r,g,b,a pixels, and the alphas in it
Rgb(px4) ==
  [i \in 1..((Len(px4) \div 4) * 3) |-> px4[((i - 1) \div 3) * 4 + ((i - 1) % 3) + 1]]
Alphas(px4) == { px4[4 * k] : k \in 1..(Len(px4) \div 4) }

\* the stream in hand was written by qoi_encode
StreamEncoded == encRet.ret = "bytes" /\ in.bytes = enc.bytes

\* the output channel count the claim gives for the call in hand
OutChannels == IF in.channels = 0 THEN in.bytes[13] ELSE in.channels

\* C11: Target channel count.  qoi_decode with target 0 uses the header's
\* channel count; the buffer returned has width * height * out_channels
\* bytes; each iteration writes r,g,b of curr when out_channels is 3 and
\* r,g,b,a when it is 4; decoding to 3 channels gives the r,g,b of decoding
\* the same stream to 4; a 3-channel stream written by qoi_encode decodes
\* to 4 channels with alpha 255 in every pixel; and the descriptor's
\* channels is the header's whatever the target.
DecodeTargetChannels ==
  /\ [](pc = "dec_done" =>
          /\ dec.channels = OutChannels
          /\ Len(dec.px) = Pixels(StreamDesc(in.bytes)) * OutChannels
          /\ ddesc.channels = in.bytes[13]
          /\ (OutChannels = 3 => dec.px = Rgb(DecodedAs(4)))
          /\ (StreamEncoded /\ in.bytes[13] = 3 /\ OutChannels = 4
                => Alphas(dec.px) \subseteq {255}))
  /\ [][pc = "dec_loop" /\ dec'.px_pos # dec.px_pos =>
          LET c == dec'.px_curr
          IN  dec'.px = dec.px \o (IF OutChannels = 4 THEN <<c.r, c.g, c.b, c.a>>
                                                      ELSE <<c.r, c.g, c.b>>)]_vars

\* a 3-channel stream of three pixels written by qoi_encode has been
\* decoded to 4 channels
DecodeTargetChannelsReached ==
  /\ pc = "dec_done"
  /\ StreamEncoded
  /\ in.bytes[13] = 3
  /\ in.channels = 4
  /\ Len(dec.px) = 12

\* C11 as stated: every stream whose header says 3 channels decodes to 4
\* channels with alpha 255 in every pixel.
AlphaOpaqueFromThree ==
  pc = "dec_done" /\ in.bytes[13] = 3 /\ OutChannels = 4
    => Alphas(dec.px) \subseteq {255}

\* C18: Run bounds.  The run counters of the encoder and of the decoder
\* are in 0..62 in every state, and every RUN byte the encoder writes, at
\* the end of a run or before the chunk of the pixel that ends one, is in
\* 0xC0..0xFD, so it is neither 0xFE nor 0xFF.
RunBounds ==
  /\ [](enc.run \in 0..62 /\ dec.run \in 0..62)
  /\ [][pc = "enc_loop" /\ enc'.px_pos # enc.px_pos
          /\ \/ enc'.op = "RUN" /\ enc'.idx > enc.idx
             \/ enc'.op # "RUN" /\ enc.run > 0
        => /\ enc'.bytes[enc.idx + 1] \in 192..253
           /\ enc'.bytes[enc.idx + 1] \notin {254, 255}]_vars

\* the decoder replays the longest run, read from the byte 0xFD that the
\* encoder wrote for 62 equal pixels
RunBoundsReached ==
  /\ pc = "dec_loop"
  /\ StreamEncoded
  /\ enc.bytes[QOI_HEADER_SIZE + 1] = 253
  /\ dec.op = "RUN"
  /\ dec.run = 61

----------------------------------------------------------------------------
(* Claims on the decoder's loop, on SpecDecode.                            *)

\* the decoder has done one iteration of its loop at least
DecStepped == pc \in {"dec_loop", "dec_done"} /\ Len(decHist) >= 1

\* the decoder's table before the iteration it has just done
DecTableBefore ==
  IF Len(decHist) = 1 THEN [i \in 0..63 |-> Pixel(0, 0, 0, 0)]
  ELSE decHist[Len(decHist) - 1]

\* C17: Decoder table update rule.  After an iteration that read an opcode
\* other than RUN the slot of curr holds curr, and an iteration that read a
\* RUN opcode or replayed a run leaves all 64 table slots as they were.
DecoderTableRule ==
  DecStepped =>
    /\ (dec.op \in {"INDEX", "DIFF", "LUMA", "RGB", "RGBA"} =>
          dec.mem[SlotOf(dec.px_curr)] = dec.px_curr)
    /\ (dec.op \in {"RUN", "replay"} => dec.mem = DecTableBefore)

\* C19: Terminator reserved.  The decoder consumes no byte at a position
\* from size - 8 on, as an opcode or as the payload of one: its cursor,
\* one past the last byte consumed, never passes size - 8.
TerminatorReserved ==
  DecStepped => dec.idx <= in.size - 8

\* the decoder's last iteration read a chunk
DecReadChunk == dec.op \in {"INDEX", "DIFF", "LUMA", "RUN", "RGB", "RGBA"}

\* C22: Decoder read bounds.  On a stream of 22 bytes or more with a valid
\* header, whatever its other bytes, qoi_decode reads an opcode only at a
\* position below size - 8 and its payload at the 4 positions after it at
\* most, so every position read is below size; and the table positions it
\* uses, the byte of an INDEX chunk and the hash of curr, are in 0..63.
DecoderReadBounds ==
  DecStepped /\ in.size >= 22 =>
    /\ dec.idx <= in.size - 4
    /\ dec.idx <= Len(in.bytes)
    /\ (DecReadChunk =>
          /\ dec.idx - OpLength(dec.op) < in.size - 8
          /\ qoi_hash(dec.px_curr) \in 0..63
          /\ SlotOf(dec.px_curr) = qoi_hash(dec.px_curr))
    /\ (dec.op = "INDEX" => in.bytes[dec.idx] \in 0..63)
    /\ DOMAIN dec.mem = 0..63

\* an RGBA opcode in the last position before size - 8 has taken its four
\* bytes from the last 8 of a stream that does not end in the padding
DecoderReadBoundsReached ==
  /\ DecStepped
  /\ dec.op = "RGBA"
  /\ dec.idx = in.size - 4
  /\ in.bytes[in.size] = 255

----------------------------------------------------------------------------
(* Claims on SpecWrap.                                                     *)

\* byte a moved by the signed d, modulo 256
AddWrap(a, d) == (a + d + 256) % 256

\* the pixel that the decoder's rule for DIFF makes of p and byte b1, and
\* the one its rule for LUMA makes of p and bytes b1, b2
DiffApplied(p, b1) ==
  Pixel(AddWrap(p.r, ((b1 \div 16) % 4) - 2), AddWrap(p.g, ((b1 \div 4) % 4) - 2),
        AddWrap(p.b, (b1 % 4) - 2), p.a)
LumaApplied(p, b1, b2) ==
  LET dg == (b1 % 64) - 32
  IN  Pixel(AddWrap(p.r, dg + (b2 \div 16) - 8), AddWrap(p.g, dg),
            AddWrap(p.b, dg + (b2 % 16) - 8), p.a)

\* C20: Wrapping differences.  The encoder takes the differences modulo
\* 256 as signed bytes: a step across 255/0 that fits DIFF or LUMA is
\* written as such; DIFF is written only when dr, dg, db are in -2..1 and
\* LUMA only when dg is in -32..31 and the integers dr - dg, db - dg are in
\* -8..7; adding the differences of the chunk written to prev modulo 256
\* gives curr, and so does qoi_decode.
WrappingDifferences ==
  /\ EncStepped =>
       LET c == EncCurr
           p == EncPrev
       IN  /\ (enc.op = "DIFF" =>
                 DiffFits(c, p) /\ DiffApplied(p, enc.bytes[enc.idx]) = c)
           /\ (enc.op = "LUMA" =>
                 /\ LumaFits(c, p)
                 /\ ~DiffFits(c, p)
                 /\ LumaApplied(p, enc.bytes[enc.idx - 1], enc.bytes[enc.idx]) = c)
           /\ (enc.op \in {"RGB", "RGBA"} => ~DiffFits(c, p) /\ ~LumaFits(c, p))
  /\ pc = "dec_done" /\ StreamEncoded /\ dec.channels = desc.channels
       => dec.px = data

\* the step of red from 255 to 0 has been written as DIFF
WrappingDifferencesReached ==
  /\ EncStepped
  /\ EncDone = 2
  /\ EncPrev.r = 255
  /\ EncCurr.r = 0
  /\ enc.op = "DIFF"
  /\ enc.bytes[enc.idx] = 64 + 3 * 16 + 2 * 4 + 2

----------------------------------------------------------------------------
(* Claims on SpecCapacity.                                                 *)

\* C21: Output capacity.  For every descriptor qoi_encode accepts, the
\* size it allocates is width * height * (channels + 1) + 14 + 8 and is
\* below 2^31, so the computation overflows neither 32 bits nor the int
\* *size; the write cursor, which is the number of bytes written, is never
\* above that size: after k pixels it is at most 14 + k * (channels + 1),
\* and the padding fits after the last; and 3-channel input gives no RGBA
\* chunk.
OutputCapacity ==
  pc \in {"enc_loop", "enc_done"} =>
    /\ enc.sz = Pixels(desc) * (desc.channels + 1) + 14 + 8
    /\ Pixels(desc) < QOI_MAXIMUM_PIXELS
    /\ Pixels(desc) <= (2147483647 - 22) \div (desc.channels + 1)
    /\ enc.idx <= enc.sz
    /\ Len(enc.bytes) = enc.idx
    /\ (pc = "enc_loop" =>
          enc.idx <= 14 + (enc.px_pos \div desc.channels) * (desc.channels + 1))
    /\ (desc.channels = 3 => enc.op # "RGBA")

\* an image of several pixels, each written as an RGBA chunk, has filled
\* the buffer to its last byte
OutputCapacityReached ==
  /\ pc = "enc_done"
  /\ Pixels(desc) >= 2
  /\ desc.channels = 4
  /\ enc.idx = enc.sz

====
